---- MODULE Spec2Model ----
(***************************************************************************)
(* Model of src/backend/routers/announcements.py: the announcements        *)
(* endpoints (list active, list all, create, update, delete) over the      *)
(* announcements collection and the teachers collection.                   *)
(*                                                                         *)
(* Strings the handlers only compare or test are modelled structurally:    *)
(*  - a date string is [kind, t]: kind "iso" is a string of the format     *)
(*    datetime.isoformat() yields (YYYY-MM-DDTHH:MM:SS, no zone), t its    *)
(*    instant; on such strings the store's string order is the order of t. *)
(*    kind "text" is a string fromisoformat rejects, "empty" is "", and    *)
(*    "none" is Python's None (parameter not supplied).                    *)
(*  - a path identifier is [hex]: hex > 0 is the 24-hex-digit rendering of *)
(*    the ObjectId of that number, hex = 0 is a string ObjectId() rejects. *)
(***************************************************************************)
EXTENDS Integers, Sequences, FiniteSets, TLC

\* ------------------------------------------------------------ bounds
\* The store generates at most MaxIds identifiers; the clock runs 1..MaxTime.
MaxIds == 2
MaxTime == 2

\* ------------------------------------------------------------ values
NoneVal == [kind |-> "none", t |-> 0]
EmptyStr == [kind |-> "empty", t |-> 0]
NotADate == [kind |-> "text", t |-> 0]
Iso(t) == [kind |-> "iso", t |-> t]

\* bool(s) of an optional string parameter: None and "" are falsy.
Truthy(s) == s.kind \notin {"none", "empty"}

\* datetime.fromisoformat(s.replace('Z', '+00:00')) does not raise.
IsoParses(s) == s.kind = "iso"

\* datetime.utcnow().isoformat()
IsoFormat(t) == Iso(t)

\* The store's comparison of two string values ($lte / $gte / sort).
StrLeq(a, b) == a.t <= b.t

\* str(ObjectId) and ObjectId(str).
Str(oid) == [hex |-> oid]
BadId == [hex |-> 0]
ObjectIdValid(s) == s.hex > 0
ObjectId(s) == s.hex

\* teachers_collection: read only, two teacher documents keyed by username.
Teachers == {"t1", "t2"}

\* ------------------------------------------------------------ inputs
Clients == {"a", "b"}
SeqClient == "a"
Users == {"", "ghost", "t1", "t2"}
Msgs == {"M1", "M2"}
ExpDates == {Iso(1), Iso(MaxTime + 1), NotADate}
StartDates == {NoneVal, Iso(2)}
PathIds == {Str(n) : n \in 1..(MaxIds + 1)} \cup {BadId}
\* The (expiration_date, start_date) pairs of a request: every pair of the two
\* sets, and a parseable expiration_date with an unparseable start_date.
DateArgs == (ExpDates \X StartDates) \cup {<<Iso(MaxTime + 1), NotADate>>}

\* Inputs of the executions in which the clock runs.
TimedUsers == {"ghost", "t1", "t2"}
TimedMsgs == {"M1"}
TimedStartDates == {EmptyStr, Iso(2), NotADate}

\* Inputs of the interleaved executions.
ConcUsers == {"ghost", "t1"}
ConcExpDates == {Iso(MaxTime + 1), NotADate}
ConcStartDates == {NoneVal, Iso(2)}
ConcPathIds == {Str(1), BadId}

VARIABLES store, nextId, now, pc, req, resp, ann

vars == <<store, nextId, now, pc, req, resp, ann>>

\* ------------------------------------------------------------ documents
NoDoc == << >>
Found(d) == DOMAIN d # {}
HasStart(d) == "start_date" \in DOMAIN d

WithField(d, f, v) == [g \in DOMAIN d \cup {f} |-> IF g = f THEN v ELSE d[g]]
WithoutField(d, f) == [g \in DOMAIN d \ {f} |-> d[g]]

\* announcement["_id"] = str(announcement["_id"])
Stringify(d) == [d EXCEPT !["_id"] = Str(d["_id"])]

\* ------------------------------------------------------------ store calls
\* collection.find_one({"_id": oid})
FindOne(s, oid) == IF oid \in DOMAIN s THEN s[oid] ELSE NoDoc

\* collection.insert_one(doc): the store generates the identifier.
InsertOne(s, oid, doc) ==
    [i \in DOMAIN s \cup {oid} |-> IF i = oid THEN WithField(doc, "_id", oid) ELSE s[i]]

\* collection.update_one({"_id": oid}, {"$unset": {"start_date": ""}})
UnsetStart(s, oid) ==
    IF oid \in DOMAIN s
    THEN [s EXCEPT ![oid] = WithoutField(s[oid], "start_date")]
    ELSE s

\* The document after {"$set": data}: every field of data written, others kept.
SetDoc(d, data) ==
    [g \in DOMAIN d \cup DOMAIN data |-> IF g \in DOMAIN data THEN data[g] ELSE d[g]]

\* collection.update_one({"_id": oid}, {"$set": data}) without upsert.
SetFields(s, oid, data) ==
    IF oid \in DOMAIN s THEN [s EXCEPT ![oid] = SetDoc(s[oid], data)] ELSE s

MatchedCount(s, oid) == IF oid \in DOMAIN s THEN 1 ELSE 0
ModifiedCount(s, oid, data) == IF SetFields(s, oid, data) # s THEN 1 ELSE 0

\* collection.delete_one({"_id": oid})
DeleteOne(s, oid) == [i \in DOMAIN s \ {oid} |-> s[i]]
DeletedCount(s, oid) == IF oid \in DOMAIN s THEN 1 ELSE 0

\* The query of get_active_announcements against one document.
MatchesActive(d, current_time) ==
    /\ (~HasStart(d) \/ StrLeq(d["start_date"], current_time))
    /\ StrLeq(current_time, d["expiration_date"])

ActiveDocs(s, current_time) ==
    {s[i] : i \in {j \in DOMAIN s : MatchesActive(s[j], current_time)}}

AllDocs(s) == {s[i] : i \in DOMAIN s}

\* .sort("created_at", -1): any order of the documents that is descending in
\* created_at (the store leaves the order of equal keys open).
SortedDesc(D) ==
    {q \in [1..Cardinality(D) -> D] :
        /\ \A i, j \in 1..Cardinality(D) : i # j => q[i] # q[j]
        /\ \A i, j \in 1..Cardinality(D) :
              i < j => StrLeq(q[j]["created_at"], q[i]["created_at"])}

StringifyAll(q) == [i \in 1..Len(q) |-> Stringify(q[i])]

\* ------------------------------------------------------------ responses
NoReq == [op |-> "none", user |-> "", id |-> BadId, message |-> "",
          expiration_date |-> NoneVal, start_date |-> NoneVal]
NoResp == [status |-> 0, detail |-> "", body |-> << >>]
NoAnn == [found |-> FALSE, has_start |-> FALSE]

Error(code, text) == [status |-> code, detail |-> text, body |-> << >>]
Ok(docs) == [status |-> 200, detail |-> "", body |-> docs]

\* Mutant: the teacher lookup is skipped, any non-empty username passes.
AuthCheck_NoLookup(user) ==
    IF user = "" THEN "Authentication required for this action" ELSE "ok"

\* The teacher check every authenticated handler starts with: "ok" or the
\* detail of the 401 it raises.
AuthCheck(user) ==
    IF user = "" THEN "Authentication required for this action"
    ELSE IF user \notin Teachers THEN "Invalid teacher credentials"
    ELSE "ok"

\* The date validation of create and update.
DatesValid(expiration_date, start_date) ==
    /\ IsoParses(expiration_date)
    /\ (Truthy(start_date) => IsoParses(start_date))

DateError == Error(400, "Invalid date format. Use ISO format (YYYY-MM-DDTHH:MM:SS)")
IdError == Error(400, "Invalid announcement ID format")
NotFound == Error(404, "Announcement not found")
UpdateFailed == Error(500, "Failed to update announcement")
ServerError == Error(500, "Internal Server Error")

\* Mutant: the update also stamps the updating teacher as creator.
UpdateData_Restamp(r) ==
    LET base == [message |-> r.message, expiration_date |-> r.expiration_date,
                 created_by |-> r.user]
    IN IF Truthy(r.start_date) THEN WithField(base, "start_date", r.start_date) ELSE base

\* update_data of update_announcement.
UpdateData(r) ==
    LET base == [message |-> r.message, expiration_date |-> r.expiration_date]
    IN IF Truthy(r.start_date) THEN WithField(base, "start_date", r.start_date) ELSE base

Init ==
    /\ store = << >>
    /\ nextId = 1
    /\ now = 1
    /\ pc = [c \in Clients |-> "idle"]
    /\ req = [c \in Clients |-> NoReq]
    /\ resp = [c \in Clients |-> NoResp]
    /\ ann = [c \in Clients |-> NoAnn]

Finish(c, r, answer) ==
    /\ pc' = [pc EXCEPT ![c] = "done"]
    /\ req' = [req EXCEPT ![c] = r]
    /\ resp' = [resp EXCEPT ![c] = answer]

\* ------------------------------------------------------------ requests
ListActiveReq == [NoReq EXCEPT !.op = "list_active"]
ListAllReq(u) == [NoReq EXCEPT !.op = "list_all", !.user = u]
CreateReq(u, m, e, sd) ==
    [NoReq EXCEPT !.op = "create", !.user = u, !.message = m,
                  !.expiration_date = e, !.start_date = sd]
UpdateReq(u, id, m, e, sd) ==
    [NoReq EXCEPT !.op = "update", !.user = u, !.id = id, !.message = m,
                  !.expiration_date = e, !.start_date = sd]
DeleteReq(u, id) == [NoReq EXCEPT !.op = "delete", !.user = u, !.id = id]

\* ------------------------------------------------------------ handlers
\* get_active_announcements: no authentication, one find.
GetActive(c) ==
    /\ pc[c] = "idle"
    /\ \E q \in SortedDesc(ActiveDocs(store, IsoFormat(now))) :
          Finish(c, ListActiveReq, Ok(StringifyAll(q)))
    /\ UNCHANGED <<store, nextId, now, ann>>

\* get_all_announcements
GetAll(c, u) ==
    /\ pc[c] = "idle"
    /\ IF AuthCheck(u) # "ok"
       THEN Finish(c, ListAllReq(u), Error(401, AuthCheck(u)))
       ELSE \E q \in SortedDesc(AllDocs(store)) :
               Finish(c, ListAllReq(u), Ok(StringifyAll(q)))
    /\ UNCHANGED <<store, nextId, now, ann>>

\* Mutant: start_date is stored whether or not it was supplied.
NewDoc_NullStart(r, created_at) ==
    [message |-> r.message, expiration_date |-> r.expiration_date,
     created_by |-> r.user, created_at |-> created_at, start_date |-> r.start_date]

\* Mutant: the creator is not recorded.
NewDoc_NoCreator(r, created_at) ==
    LET base == [message |-> r.message, expiration_date |-> r.expiration_date,
                 created_by |-> "", created_at |-> created_at]
    IN IF Truthy(r.start_date) THEN WithField(base, "start_date", r.start_date) ELSE base

\* The document create_announcement builds before the insert.
NewDoc(r, created_at) ==
    LET base == [message |-> r.message, expiration_date |-> r.expiration_date,
                 created_by |-> r.user, created_at |-> created_at]
    IN IF Truthy(r.start_date) THEN WithField(base, "start_date", r.start_date) ELSE base

\* The error create_announcement raises before it builds the document, or NoResp.
CreateEntry(r) ==
    IF AuthCheck(r.user) # "ok" THEN Error(401, AuthCheck(r.user))
    ELSE IF ~DatesValid(r.expiration_date, r.start_date) THEN DateError
    ELSE NoResp

\* create_announcement
Create(c, u, m, e, sd) ==
    LET r == CreateReq(u, m, e, sd)
        doc == NewDoc(r, IsoFormat(now))
    IN /\ pc[c] = "idle"
       /\ IF CreateEntry(r) # NoResp
          THEN /\ Finish(c, r, CreateEntry(r))
               /\ UNCHANGED <<store, nextId>>
          ELSE /\ nextId <= MaxIds
               /\ store' = InsertOne(store, nextId, doc)
               /\ nextId' = nextId + 1
               /\ Finish(c, r, Ok(<<WithField(doc, "_id", Str(nextId))>>))
       /\ UNCHANGED <<now, ann>>

\* Mutant: the dates are validated before the identifier and the lookup.
UpdateEntry_DatesFirst(s, r) ==
    IF AuthCheck(r.user) # "ok" THEN Error(401, AuthCheck(r.user))
    ELSE IF ~DatesValid(r.expiration_date, r.start_date) THEN DateError
    ELSE IF ~ObjectIdValid(r.id) THEN IdError
    ELSE IF ~Found(FindOne(s, ObjectId(r.id))) THEN NotFound
    ELSE NoResp

\* Mutant: the dates are not validated.
UpdateEntry_NoDateCheck(s, r) ==
    IF AuthCheck(r.user) # "ok" THEN Error(401, AuthCheck(r.user))
    ELSE IF ~ObjectIdValid(r.id) THEN IdError
    ELSE IF ~Found(FindOne(s, ObjectId(r.id))) THEN NotFound
    ELSE NoResp

\* The error update_announcement raises before its first write, or NoResp:
\* credential, identifier format, existence, dates, in this order.
UpdateEntry(s, r) ==
    IF AuthCheck(r.user) # "ok" THEN Error(401, AuthCheck(r.user))
    ELSE IF ~ObjectIdValid(r.id) THEN IdError
    ELSE IF ~Found(FindOne(s, ObjectId(r.id))) THEN NotFound
    ELSE IF ~DatesValid(r.expiration_date, r.start_date) THEN DateError
    ELSE NoResp

\* The announcement read by update's find_one, as far as the handler uses it.
Seen(s, r) ==
    IF ObjectIdValid(r.id) /\ AuthCheck(r.user) = "ok"
    THEN [found |-> Found(FindOne(s, ObjectId(r.id))),
          has_start |-> HasStart(FindOne(s, ObjectId(r.id)))]
    ELSE NoAnn

\* Mutant: the $unset call is never issued.
NeedsUnset_Never(r, seen) == FALSE

\* Whether update issues the $unset call.
NeedsUnset(r, seen) == ~Truthy(r.start_date) /\ seen.has_start

\* The response after the $set call on store s: 500 if nothing matched, else NoResp.
SetAnswer(s, r) ==
    IF ModifiedCount(s, ObjectId(r.id), UpdateData(r)) = 0
          /\ MatchedCount(s, ObjectId(r.id)) = 0
    THEN UpdateFailed
    ELSE NoResp

\* The final read of update: updated["_id"] on None raises, an unhandled error.
ReadBack(s, r) ==
    IF Found(FindOne(s, ObjectId(r.id)))
    THEN Ok(<<Stringify(FindOne(s, ObjectId(r.id)))>>)
    ELSE ServerError

\* update_announcement run without interruption.
Update(c, u, id, m, e, sd) ==
    LET r == UpdateReq(u, id, m, e, sd)
        seen == Seen(store, r)
        s1 == IF NeedsUnset(r, seen) THEN UnsetStart(store, ObjectId(r.id)) ELSE store
        s2 == SetFields(s1, ObjectId(r.id), UpdateData(r))
    IN /\ pc[c] = "idle"
       /\ ann' = [ann EXCEPT ![c] = seen]
       /\ IF UpdateEntry(store, r) # NoResp
          THEN /\ Finish(c, r, UpdateEntry(store, r))
               /\ UNCHANGED store
          ELSE /\ store' = s2
               /\ IF SetAnswer(s1, r) # NoResp
                  THEN Finish(c, r, SetAnswer(s1, r))
                  ELSE Finish(c, r, ReadBack(s2, r))
       /\ UNCHANGED <<nextId, now>>

DeleteOk == Ok(<<[message |-> "Announcement deleted successfully"]>>)

\* delete_announcement
Delete(c, u, id) ==
    LET r == DeleteReq(u, id)
    IN /\ pc[c] = "idle"
       /\ IF AuthCheck(u) # "ok"
          THEN Finish(c, r, Error(401, AuthCheck(u))) /\ UNCHANGED store
          ELSE IF ~ObjectIdValid(id)
          THEN Finish(c, r, IdError) /\ UNCHANGED store
          ELSE /\ store' = DeleteOne(store, ObjectId(id))
               /\ IF DeletedCount(store, ObjectId(id)) = 0
                  THEN Finish(c, r, NotFound)
                  ELSE Finish(c, r, DeleteOk)
       /\ UNCHANGED <<nextId, now, ann>>

\* The response has been sent; the worker takes the next request.
Reply(c) ==
    /\ pc[c] = "done"
    /\ pc' = [pc EXCEPT ![c] = "idle"]
    /\ req' = [req EXCEPT ![c] = NoReq]
    /\ resp' = [resp EXCEPT ![c] = NoResp]
    /\ ann' = [ann EXCEPT ![c] = NoAnn]
    /\ UNCHANGED <<store, nextId, now>>

\* The clock of datetime.utcnow() advances between requests.
Tick ==
    /\ \A c \in Clients : pc[c] = "idle"
    /\ now < MaxTime
    /\ now' = now + 1
    /\ UNCHANGED <<store, nextId, pc, req, resp, ann>>

\* Requests execute one at a time; the clock stands still.
Next ==
    \/ GetActive(SeqClient)
    \/ \E u \in Users : GetAll(SeqClient, u)
    \/ \E u \in Users, m \in Msgs, da \in DateArgs :
          Create(SeqClient, u, m, da[1], da[2])
    \/ \E u \in Users, id \in PathIds, m \in Msgs, da \in DateArgs :
          Update(SeqClient, u, id, m, da[1], da[2])
    \/ \E u \in Users, id \in PathIds : Delete(SeqClient, u, id)
    \/ Reply(SeqClient)

Spec == Init /\ [][Next]_vars

\* Requests execute one at a time and the clock runs between them.
TimedNext ==
    \/ GetActive(SeqClient)
    \/ \E u \in TimedUsers : GetAll(SeqClient, u)
    \/ \E u \in TimedUsers, m \in TimedMsgs, e \in ExpDates, sd \in TimedStartDates :
          Create(SeqClient, u, m, e, sd)
    \/ \E u \in TimedUsers, id \in PathIds, m \in TimedMsgs, e \in ExpDates,
          sd \in TimedStartDates :
          Update(SeqClient, u, id, m, e, sd)
    \/ \E u \in TimedUsers, id \in PathIds : Delete(SeqClient, u, id)
    \/ Reply(SeqClient)
    \/ Tick

TimedSpec == Init /\ [][TimedNext]_vars

\* ------------------------------------------------------------ interleaving
\* update_announcement one store call at a time: the checks with find_one,
\* then the optional $unset, the $set, and the final find_one.
UpdateBegin(c, u, id, m, e, sd) ==
    LET r == UpdateReq(u, id, m, e, sd)
        seen == Seen(store, r)
    IN /\ pc[c] = "idle"
       /\ ann' = [ann EXCEPT ![c] = seen]
       /\ IF UpdateEntry(store, r) # NoResp
          THEN Finish(c, r, UpdateEntry(store, r))
          ELSE /\ pc' = [pc EXCEPT ![c] = IF NeedsUnset(r, seen) THEN "unset" ELSE "set"]
               /\ req' = [req EXCEPT ![c] = r]
               /\ UNCHANGED resp
       /\ UNCHANGED <<store, nextId, now>>

UpdateUnset(c) ==
    /\ pc[c] = "unset"
    /\ store' = UnsetStart(store, ObjectId(req[c].id))
    /\ pc' = [pc EXCEPT ![c] = "set"]
    /\ UNCHANGED <<nextId, now, req, resp, ann>>

UpdateSet(c) ==
    /\ pc[c] = "set"
    /\ store' = SetFields(store, ObjectId(req[c].id), UpdateData(req[c]))
    /\ IF SetAnswer(store, req[c]) # NoResp
       THEN Finish(c, req[c], SetAnswer(store, req[c]))
       ELSE /\ pc' = [pc EXCEPT ![c] = "read"]
            /\ UNCHANGED <<req, resp>>
    /\ UNCHANGED <<nextId, now, ann>>

UpdateReadBack(c) ==
    /\ pc[c] = "read"
    /\ Finish(c, req[c], ReadBack(store, req[c]))
    /\ UNCHANGED <<store, nextId, now, ann>>

\* Two workers serve requests concurrently; every other handler makes a single
\* call on the announcements collection.
ConcNext ==
    \E c \in Clients :
        \/ \E u \in ConcUsers, m \in Msgs, e \in ConcExpDates, sd \in ConcStartDates :
              Create(c, u, m, e, sd)
        \/ \E u \in ConcUsers, id \in ConcPathIds, m \in Msgs, e \in ConcExpDates,
              sd \in ConcStartDates :
              UpdateBegin(c, u, id, m, e, sd)
        \/ UpdateUnset(c)
        \/ UpdateSet(c)
        \/ UpdateReadBack(c)
        \/ \E u \in ConcUsers, id \in ConcPathIds : Delete(c, u, id)
        \/ Reply(c)

ConcSpec == Init /\ [][ConcNext]_vars

\* ------------------------------------------------------------ properties
\* What the properties read of a sequential step: the request handled in the
\* step and its response; store is the store before it, store' the store after.
Handled == pc[SeqClient] = "idle" /\ pc'[SeqClient] = "done"
Served == pc[SeqClient] = "done"
Request == req[SeqClient]
Response == resp[SeqClient]
Mutating == {"create", "update", "delete"}

\* The instant an ISO string denotes.
Instant(d) == d.t

\* The window of an announcement contains the instant t.
InWindow(d, t) ==
    /\ (HasStart(d) => Instant(d["start_date"]) <= t)
    /\ t < Instant(d["expiration_date"])

Elements(q) == {q[k] : k \in 1..Len(q)}

\* C1: the public list returns exactly the stored announcements whose window
\* contains now, each once: expiration_date <= now is omitted, start_date > now
\* is omitted, every other stored announcement appears.
C1_PublicListIsWindow ==
    (Served /\ Request.op = "list_active") =>
        LET expected == {Stringify(store[i]) :
                            i \in {j \in DOMAIN store : InWindow(store[j], now)}}
        IN /\ Elements(Response.body) = expected
           /\ Len(Response.body) = Cardinality(expected)

\* C2: a create, update or delete whose teacher_username is absent or matches
\* no teacher returns 401 and leaves the announcement store as it was, whatever
\* its other arguments.
C2_UnauthorizedLeavesStore ==
    [][(Handled /\ req'[SeqClient].op \in Mutating
               /\ req'[SeqClient].user \notin Teachers)
          => (resp'[SeqClient].status = 401 /\ store' = store)]_vars

C2_Witness ==
    /\ Served
    /\ Request.op = "update"
    /\ Request.user = "ghost"
    /\ ObjectId(Request.id) \in DOMAIN store
    /\ Request.expiration_date.kind = "iso"
    /\ Response.status = 401

\* C3: an authorized update with valid dates that omits start_date, applied to
\* a record that has a start_date, succeeds; afterwards the stored record and
\* the returned record have no start_date field, and message and
\* expiration_date are the request's.
C3_OmittedStartIsRemoved ==
    [][(/\ Handled
        /\ req'[SeqClient].op = "update"
        /\ req'[SeqClient].user \in Teachers
        /\ req'[SeqClient].id.hex \in DOMAIN store
        /\ req'[SeqClient].expiration_date.kind = "iso"
        /\ req'[SeqClient].start_date.kind \in {"none", "empty"}
        /\ "start_date" \in DOMAIN store[req'[SeqClient].id.hex])
          => LET r == req'[SeqClient]
                 oid == r.id.hex
             IN /\ resp'[SeqClient].status = 200
                /\ oid \in DOMAIN store'
                /\ "start_date" \notin DOMAIN store'[oid]
                /\ store'[oid]["message"] = r.message
                /\ store'[oid]["expiration_date"] = r.expiration_date
                /\ Len(resp'[SeqClient].body) = 1
                /\ "start_date" \notin DOMAIN resp'[SeqClient].body[1]
                /\ resp'[SeqClient].body[1]["message"] = r.message
                /\ resp'[SeqClient].body[1]["expiration_date"] = r.expiration_date]_vars

C3_Witness ==
    /\ Served
    /\ Request.op = "update"
    /\ Request.start_date.kind = "none"
    /\ ann[SeqClient].has_start
    /\ Response.status = 200
    /\ "start_date" \notin DOMAIN store[Request.id.hex]
    /\ store[Request.id.hex]["message"] = Request.message

\* C4: update reports the first precondition that fails, in the order
\* credential (401), identifier format (400, format error), existence (404),
\* dates (400, validation error).
C4_UpdateCheckOrder ==
    [][(Handled /\ req'[SeqClient].op = "update")
          => LET r == req'[SeqClient]
                 a == resp'[SeqClient]
             IN IF r.user \notin Teachers THEN a.status = 401
                ELSE IF r.id.hex = 0
                THEN a.status = 400 /\ a.detail = "Invalid announcement ID format"
                ELSE IF r.id.hex \notin DOMAIN store
                THEN a.status = 404 /\ a.detail = "Announcement not found"
                ELSE IF \/ r.expiration_date.kind # "iso"
                        \/ r.start_date.kind = "text"
                THEN /\ a.status = 400
                     /\ a.detail = "Invalid date format. Use ISO format (YYYY-MM-DDTHH:MM:SS)"
                ELSE a.status = 200]_vars

C4_Witness ==
    /\ Served
    /\ Request.op = "update"
    /\ Request.user \in Teachers
    /\ Request.id.hex > 0
    /\ Request.id.hex \notin DOMAIN store
    /\ Request.expiration_date.kind = "text"
    /\ Response.status = 404

\* C5: for an authorized update or delete, a malformed identifier returns 400
\* and a well-formed identifier with no stored record returns 404 (also one an
\* earlier delete removed); an update of an existing record with an
\* unparseable date returns 400; the store is unchanged in each of these cases.
C5_FailuresLeaveStore ==
    [][(Handled /\ req'[SeqClient].op \in {"update", "delete"}
               /\ req'[SeqClient].user \in Teachers)
          => LET r == req'[SeqClient]
                 a == resp'[SeqClient]
             IN /\ r.id.hex = 0 => (a.status = 400 /\ store' = store)
                /\ (r.id.hex > 0 /\ r.id.hex \notin DOMAIN store)
                      => (a.status = 404 /\ store' = store)
                /\ (/\ r.op = "update"
                    /\ r.id.hex \in DOMAIN store
                    /\ (r.expiration_date.kind # "iso" \/ r.start_date.kind = "text"))
                      => (a.status = 400 /\ store' = store)]_vars

\* A delete of an identifier that was generated and already deleted.
C5_Witness ==
    /\ Served
    /\ Request.op = "delete"
    /\ Request.user \in Teachers
    /\ Request.id.hex > 0
    /\ Request.id.hex < nextId
    /\ Request.id.hex \notin DOMAIN store
    /\ DOMAIN store # {}
    /\ Response.status = 404

\* C6: a record created without start_date has no start_date field, and a
\* record without the field gets one only by an update of that record that
\* supplies a start_date.
C6_StartAbsentUntilSet ==
    [][/\ (/\ Handled
           /\ req'[SeqClient].op = "create"
           /\ resp'[SeqClient].status = 200
           /\ req'[SeqClient].start_date.kind \in {"none", "empty"})
             => \A i \in DOMAIN store' \ DOMAIN store :
                   "start_date" \notin DOMAIN store'[i]
       /\ \A i \in DOMAIN store \cap DOMAIN store' :
             ("start_date" \notin DOMAIN store[i] /\ "start_date" \in DOMAIN store'[i])
                => /\ Handled
                   /\ req'[SeqClient].op = "update"
                   /\ req'[SeqClient].id = Str(i)
                   /\ req'[SeqClient].start_date.kind = "iso"
                   /\ store'[i]["start_date"] = req'[SeqClient].start_date]_vars

C6_Witness ==
    /\ Served
    /\ Request.op = "create"
    /\ Request.start_date.kind = "none"
    /\ Response.status = 200
    /\ (nextId - 1) \in DOMAIN store
    /\ "start_date" \notin DOMAIN store[nextId - 1]
    /\ Cardinality(DOMAIN store) = 2

\* C7: a successful create adds exactly one record, under a fresh identifier,
\* with the request's message and expiration_date, created_by the requesting
\* teacher and created_at <= now; the response is that record with its
\* identifier as a string; the authenticated list-all returns every stored
\* record, expired or not.
C7_CreateRoundTrip ==
    [][/\ (Handled /\ req'[SeqClient].op = "create" /\ resp'[SeqClient].status = 200)
             => LET r == req'[SeqClient]
                IN \E new \in DOMAIN store' \ DOMAIN store :
                      /\ DOMAIN store' = DOMAIN store \cup {new}
                      /\ \A i \in DOMAIN store : store'[i] = store[i]
                      /\ store'[new]["_id"] = new
                      /\ store'[new]["message"] = r.message
                      /\ store'[new]["expiration_date"] = r.expiration_date
                      /\ store'[new]["created_by"] = r.user
                      /\ Instant(store'[new]["created_at"]) <= now'
                      /\ resp'[SeqClient].body = <<Stringify(store'[new])>>
       /\ (Handled /\ req'[SeqClient].op = "create"
                   /\ req'[SeqClient].user \in Teachers
                   /\ req'[SeqClient].expiration_date.kind = "iso"
                   /\ req'[SeqClient].start_date.kind # "text")
             => resp'[SeqClient].status = 200
       /\ (Handled /\ req'[SeqClient].op = "list_all" /\ req'[SeqClient].user \in Teachers)
             => /\ resp'[SeqClient].status = 200
                /\ Elements(resp'[SeqClient].body)
                      = {Stringify(store[i]) : i \in DOMAIN store}]_vars

\* A create whose expiration_date is already past, into a store that held a record.
C7_Witness ==
    /\ Served
    /\ Request.op = "create"
    /\ Response.status = 200
    /\ Instant(Request.expiration_date) < now
    /\ Cardinality(DOMAIN store) = 2
    /\ ~InWindow(store[nextId - 1], now)

\* C8: a successful update of X changes only message, expiration_date and
\* start_date of X; id, created_by and created_at of every record stay what
\* they were at creation, and every other record is unchanged.
C8_UpdateFrame ==
    [][/\ \A i \in DOMAIN store \cap DOMAIN store' :
             /\ store'[i]["_id"] = store[i]["_id"]
             /\ store'[i]["created_by"] = store[i]["created_by"]
             /\ store'[i]["created_at"] = store[i]["created_at"]
       /\ (Handled /\ req'[SeqClient].op = "update" /\ resp'[SeqClient].status = 200)
             => LET oid == req'[SeqClient].id.hex
                IN /\ DOMAIN store' = DOMAIN store
                   /\ \A i \in DOMAIN store \ {oid} : store'[i] = store[i]
                   /\ DOMAIN store'[oid] \ {"start_date"}
                         = DOMAIN store[oid] \ {"start_date"}]_vars

\* An update by a teacher other than the creator, with another record stored.
C8_Witness ==
    /\ Served
    /\ Request.op = "update"
    /\ Response.status = 200
    /\ Cardinality(DOMAIN store) = 2
    /\ store[Request.id.hex]["created_by"] # Request.user
    /\ store[Request.id.hex]["message"] = Request.message

\* C9: once update's existence check has found the record, the update never
\* ends in the internal error, whatever other requests run between its calls.
C9_UpdateNeverInternalError ==
    \A c \in Clients :
        (pc[c] = "done" /\ req[c].op = "update" /\ ann[c].found)
            => resp[c].status # 500

\* The mutable fields of a stored record, and those a request asks for.
Mutable(d) ==
    [message |-> d["message"], expiration_date |-> d["expiration_date"],
     start_date |-> IF HasStart(d) THEN d["start_date"] ELSE NoneVal]
Asked(r) ==
    [message |-> r.message, expiration_date |-> r.expiration_date,
     start_date |-> IF Truthy(r.start_date) THEN r.start_date ELSE NoneVal]

\* C10: after two concurrent successful updates of the same announcement, its
\* message, expiration_date and start_date are those of one of the two
\* requests as a whole.
C10_LastWriterWins ==
    \A c, d \in Clients :
        (/\ c # d
         /\ pc[c] = "done" /\ req[c].op = "update" /\ resp[c].status = 200
         /\ pc[d] = "done" /\ req[d].op = "update" /\ resp[d].status = 200
         /\ req[c].id = req[d].id
         /\ ObjectId(req[c].id) \in DOMAIN store)
            => Mutable(store[ObjectId(req[c].id)]) \in {Asked(req[c]), Asked(req[d])}
====
